---- MODULE Spec2Model ----
(***************************************************************************)
(* Catasto Lookup API (src/app.py): the in-memory index `idx`, the         *)
(* process-wide `index_cache`, and the four handlers that resolve a comune *)
(* code to a regional parquet file and query it.                           *)
(*                                                                         *)
(* A Python str is a sequence of one-character strings.  The result of     *)
(* fetchone() is <<>> (None, no row) or the row as a tuple.                *)
(***************************************************************************)
EXTENDS Integers, Sequences, FiniteSets, TLC

VARIABLES
    idx,          \* TEMP TABLE idx: sequence of rows [comune, DENOMINAZIONE_IT, file]
    shards,       \* the remote parquet files: URL -> sequence of rows
    index_cache,  \* dict comune -> file
    resp,         \* the last request served and what it did (response, queries issued)
    first_res,    \* per code: the row q1 returned the first time lookup found it
    pc,           \* per request thread: position inside lookup
    loc           \* per request thread: the locals of lookup

vars == <<idx, shards, index_cache, resp, first_res, pc, loc>>

\* ------------------------------------------------------------------ bounds
MaxDup == 3        \* copies of one (comune, foglio, particella) triple in a shard
MaxLimit == 2      \* largest `limit` a caller passes
NThreads == 2      \* concurrent lookup requests

\* ------------------------------------------------------------ str helpers
Min(S) == CHOOSE x \in S : \A y \in S : x <= y
Max(S) == CHOOSE x \in S : \A y \in S : x >= y

Whitespace == {" ", "\t", "\n", "\r"}
Digits == {"0", "1", "2", "3", "4", "5", "6", "7", "8", "9"}
LowerCase == <<"a","b","c","d","e","f","g","h","i","j","k","l","m",
               "n","o","p","q","r","s","t","u","v","w","x","y","z">>
UpperCase == <<"A","B","C","D","E","F","G","H","I","J","K","L","M",
               "N","O","P","Q","R","S","T","U","V","W","X","Y","Z">>
\* the characters used, in code-point order (binary collation of VARCHAR)
CodePoints == <<"\t", "\n", "\r", " ", "'", "-", "/">>
              \o <<"0", "1", "2", "3", "4", "5", "6", "7", "8", "9", ";">>
              \o UpperCase \o LowerCase
Ord(c) == CHOOSE i \in 1..Len(CodePoints) : CodePoints[i] = c

UpperChar(c) ==
    IF \E i \in 1..Len(LowerCase) : LowerCase[i] = c
    THEN UpperCase[CHOOSE i \in 1..Len(LowerCase) : LowerCase[i] = c]
    ELSE c

\* str.upper()
upper_keep(s) == s
upper(s) == [i \in 1..Len(s) |-> UpperChar(s[i])]

\* str.strip()
strip(s) ==
    LET keep == {i \in 1..Len(s) : s[i] \notin Whitespace}
    IN  IF keep = {} THEN <<>> ELSE SubSeq(s, Min(keep), Max(keep))

\* VARCHAR `<` used by ORDER BY
StrLess(a, b) ==
    \E i \in 1..Len(b) :
        /\ \A j \in 1..(i - 1) : j <= Len(a) /\ a[j] = b[j]
        /\ (i > Len(a) \/ Ord(a[i]) < Ord(b[i]))

\* --------------------------------------------------------------- constants
\* the last path segment stands for the whole URL prefix
BASE_URL == <<"a","n","a","g","r","a","f","i","c","a","/">>

H5 == <<"H", "5">>
L7 == <<"L", "7">>
Lazio == <<"l", "a", "z">>
Piemonte == <<"p", "i", "e">>
Files == {Lazio, Piemonte}

IdxRow(c, n, f) == [comune |-> c, DENOMINAZIONE_IT |-> n, file |-> f]

\* index.parquet contents the service may be started on
CatalogPlain == <<IdxRow(H5, "ROMA", Lazio), IdxRow(L7, "TORINO", Piemonte)>>
\* two rows for one code, and two codes in one file
CatalogDup ==
    <<IdxRow(H5, "ROMA", Lazio), IdxRow(H5, "ROMA", Piemonte), IdxRow(L7, "TORINO", Lazio)>>
CatalogNoRoma == <<IdxRow(L7, "TORINO", Lazio)>>
\* a row whose code is not upper case
CatalogLower == <<IdxRow(<<"h", "5">>, "roma", Piemonte), IdxRow(H5, "ROMA", Lazio)>>
Catalogs == {CatalogPlain, CatalogDup, CatalogNoRoma, CatalogLower}

\* caller-supplied query parameters
ComuneInputs ==
    { H5, <<"h", "5">>, <<" ", "h", "5", " ">>, L7, <<"l", "7", " ">>,
      <<"Z", "9">>, <<"H", "5", "'">> }
FoglioInputs == { <<"1", "0">>, <<" ", "2">>, <<"3">> }
ParticellaInputs == { <<"4">>, <<"4", "b", " ">>, <<"5">>, <<"9">> }
LimitInputs == 0..MaxLimit
\* every value a handler may bind as `comune`
Codes == {strip(upper(c)) : c \in ComuneInputs} \cup {upper(c) : c \in ComuneInputs}
         \cup ComuneInputs

\* ------------------------------------------------------------ shard rows
\* the (comune, foglio, particella) triples a shard holds
Triples ==
    << <<H5, <<"1", "0">>, <<"4">> >>,
       <<H5, <<"1", "0">>, <<"5">> >>,
       <<H5, <<"2">>, <<"4">> >>,
       <<H5, <<"1", "0">>, <<"4", "b">> >>,
       <<L7, <<"1", "0">>, <<"4">> >> >>

ShardRow(k, j) ==
    [INSPIREID_LOCALID |-> 10 * k + j,
     comune |-> Triples[k][1], foglio |-> Triples[k][2], particella |-> Triples[k][3],
     x |-> 44123456 + k, y |-> 7123456 + j]

RECURSIVE RowsFrom(_, _)
\* the rows of a shard holding m[k] copies of triple k, for k >= from
RowsFrom(m, from) ==
    IF from > Len(Triples) THEN <<>>
    ELSE [j \in 1..m[from] |-> ShardRow(from, j)] \o RowsFrom(m, from + 1)

\* up to MaxDup copies of each H5 triple, at most one L7 row
Multiplicities ==
    {m \in [1..Len(Triples) -> 0..MaxDup] : m[Len(Triples)] <= 1}
ShardContents == {RowsFrom(m, 1) : m \in Multiplicities}
SmallContents ==
    { RowsFrom(<<2, 1, 0, 1, 1>>, 1), RowsFrom(<<0, 0, 1, 0, 0>>, 1) }
PiemonteRows == RowsFrom(<<1, 0, 0, 0, 2>>, 1)

\* -------------------------------------------------------------- responses
Response(op, comune, foglio, particella, limit, status, detail, body, catq, shq) ==
    [op |-> op, comune |-> comune, foglio |-> foglio, particella |-> particella,
     limit |-> limit, status |-> status, detail |-> detail, body |-> body,
     catq |-> catq, shq |-> shq]
NoResponse == Response("", <<>>, <<>>, <<>>, 0, 0, "", <<>>, <<>>, <<>>)

\* a query against a parquet file: the interpolated FROM and the bound parameters
Query(from, binds, limit) == [from |-> from, binds |-> binds, limit |-> limit]

\* ----------------------------------------------------------- index query
\* SELECT file FROM idx WHERE comune = $1 LIMIT 1 ... fetchone()
q1_any(comune) == IF Len(idx) = 0 THEN <<>> ELSE <<idx[1].file>>
q1(comune) ==
    LET hits == {i \in 1..Len(idx) : idx[i].comune = comune}
    IN  IF hits = {} THEN <<>> ELSE <<idx[Min(hits)].file>>

\* index_cache[comune] = res[0]
CacheStore_only(cache, comune, file) == [c \in {comune} |-> file]
CacheStore(cache, comune, file) ==
    [c \in DOMAIN cache \cup {comune} |-> IF c = comune THEN file ELSE cache[c]]

\* comune not in index_cache
CacheMiss_always(cache, comune) == TRUE
CacheMiss(cache, comune) == comune \notin DOMAIN cache

\* x / 1000000.0, as <<integer part, millionths>>
descale(v) == <<v \div 1000000, v % 1000000>>

\* ------------------------------------------------------------ lookup SQL
\* q2: FROM '{BASE_URL}{file_reg}' WHERE comune = $1 AND foglio = $2 AND particella = $3
q2_interpolated(file_reg, comune, foglio, particella) ==
    Query(BASE_URL \o comune, <<comune, foglio, particella>>, 1)
q2(file_reg, comune, foglio, particella) ==
    Query(BASE_URL \o file_reg, <<comune, foglio, particella>>, 1)

\* the rows of the file that pass q2's WHERE
q2_rows_noParticella(q) ==
    {i \in 1..Len(shards[q.from]) :
        /\ shards[q.from][i].comune = q.binds[1]
        /\ shards[q.from][i].foglio = q.binds[2]}
q2_rows(q) ==
    {i \in 1..Len(shards[q.from]) :
        /\ shards[q.from][i].comune = q.binds[1]
        /\ shards[q.from][i].foglio = q.binds[2]
        /\ shards[q.from][i].particella = q.binds[3]}

\* the dict lookup returns
Parcel(row) ==
    [localid |-> row.INSPIREID_LOCALID, comune |-> row.comune, foglio |-> row.foglio,
     particella |-> row.particella, lon |-> descale(row.x), lat |-> descale(row.y)]

\* --------------------------------------------------------- duplicate SQL
\* REGEXP_MATCHES(particella, '^[0-9]+$')
regexp_matches(s) == Len(s) >= 1 /\ \A i \in 1..Len(s) : s[i] \in Digits

\* GROUP BY foglio, particella HAVING COUNT(*) > 1, over the row numbers `sel`
GroupHaving(rows, sel) ==
    LET keys == {<<rows[i].foglio, rows[i].particella>> : i \in sel}
        n(k) == Cardinality({i \in sel : <<rows[i].foglio, rows[i].particella>> = k})
    IN  {[foglio |-> k[1], particella |-> k[2], count |-> n(k)] :
            k \in {k \in keys : n(k) > 1}}

\* ORDER BY foglio, particella
ByKey(g, h) ==
    \/ StrLess(g.foglio, h.foglio)
    \/ g.foglio = h.foglio /\ StrLess(g.particella, h.particella)
\* ORDER BY n DESC, foglio, particella
ByCountDescThenKey(g, h) == g.count > h.count \/ (g.count = h.count /\ ByKey(g, h))

\* the groups G as ORDER BY lists them: by count first when byCount, else by key alone
OrderBy(G, byCount) ==
    [i \in 1..Cardinality(G) |->
        CHOOSE g \in G :
            Cardinality({h \in G : IF byCount THEN ByCountDescThenKey(h, g)
                                              ELSE ByKey(h, g)}) = i - 1]

\* LIMIT $n
Limit(s, n) == SubSeq(s, 1, Min({n, Len(s)}))

\* check_duplicati's sql over the rows of the file
dup_sql_byKey(rows, comune, limit) ==
    Limit(OrderBy(GroupHaving(rows, {i \in 1..Len(rows) : rows[i].comune = comune}),
                  FALSE), limit)
dup_sql(rows, comune, limit) ==
    Limit(OrderBy(GroupHaving(rows, {i \in 1..Len(rows) : rows[i].comune = comune}),
                  TRUE), limit)

\* check_duplicati_numeric's sql over the rows of the file
dupnum_sql_allRows(rows, comune, limit) ==
    Limit(OrderBy(GroupHaving(rows, {i \in 1..Len(rows) : rows[i].comune = comune}),
                  FALSE), limit)
dupnum_sql(rows, comune, limit) ==
    Limit(OrderBy(GroupHaving(rows, {i \in 1..Len(rows) :
                                        /\ rows[i].comune = comune
                                        /\ regexp_matches(rows[i].particella)}),
                  FALSE), limit)

\* DESCRIBE SELECT * FROM '{file_reg}' LIMIT 1: the columns of a regional file
ShardColumns == <<"INSPIREID_LOCALID", "comune", "foglio", "particella", "x", "y">>

\* ---------------------------------------------------------------- handlers
\* comune.strip().upper()
LookupKey(comune) == upper(strip(comune))
\* codice_comune.upper()
ScanKey(codice_comune) == upper(codice_comune)

\* GET /lookup
lookup(comune_in, foglio_in, particella_in) ==
    LET comune == LookupKey(comune_in)
        foglio == strip(foglio_in)
        particella == strip(particella_in)
        miss == CacheMiss(index_cache, comune)
        res == q1(comune)
        catq == IF miss THEN << <<comune>> >> ELSE <<>>
        R(status, detail, body, shq) ==
            Response("lookup", comune_in, foglio_in, particella_in, 0,
                     status, detail, body, catq, shq)
        cache1 == IF miss /\ res # <<>>
                  THEN CacheStore(index_cache, comune, res[1]) ELSE index_cache
    IN  /\ first_res' = IF miss /\ res # <<>> /\ first_res[comune] = <<>>
                        THEN [first_res EXCEPT ![comune] = res] ELSE first_res
        /\ index_cache' = cache1
        /\ IF miss /\ res = <<>>
           THEN resp' = R(404, "Comune non trovato nell'indice", <<>>, <<>>)
           ELSE IF comune \notin DOMAIN cache1
           THEN resp' = R(500, "KeyError", <<>>, <<>>)
           ELSE LET q == q2(cache1[comune], comune, foglio, particella)
                IN  IF q.from \notin DOMAIN shards
                    THEN resp' = R(500, "IO Error", <<>>, <<q>>)
                    ELSE IF q2_rows(q) = {}
                    THEN resp' = R(404, "Particella non trovata", <<>>, <<q>>)
                    ELSE \E i \in q2_rows(q) :
                            resp' = R(200, "", <<Parcel(shards[q.from][i])>>, <<q>>)
        /\ UNCHANGED <<idx, shards>>

\* GET /schema_regione
schema_regione(codice_comune) ==
    LET comune == ScanKey(codice_comune)
        res == q1(comune)
        R(status, detail, body, shq) ==
            Response("schema_regione", codice_comune, <<>>, <<>>, 1,
                     status, detail, body, << <<comune>> >>, shq)
    IN  /\ IF res = <<>>
           THEN resp' = R(404, "Comune non trovato", <<>>, <<>>)
           ELSE LET file_reg == BASE_URL \o res[1]
                    q == Query(file_reg, <<>>, 1)
                IN  IF file_reg \notin DOMAIN shards
                    THEN resp' = R(500, "Internal Server Error", <<>>, <<q>>)
                    ELSE resp' = R(200, "",
                                   [i \in 1..Len(ShardColumns) |->
                                       [column |-> ShardColumns[i]]], <<q>>)
        /\ UNCHANGED <<idx, shards, index_cache, first_res>>

\* GET /check_duplicati
check_duplicati(codice_comune, limit) ==
    LET comune == ScanKey(codice_comune)
        res == q1(comune)
        R(status, detail, body, shq) ==
            Response("check_duplicati", codice_comune, <<>>, <<>>, limit,
                     status, detail, body, << <<comune>> >>, shq)
    IN  /\ IF res = <<>>
           THEN resp' = R(404, "Comune non trovato", <<>>, <<>>)
           ELSE LET file_reg == BASE_URL \o res[1]
                    q == Query(file_reg, <<comune>>, limit)
                IN  IF file_reg \notin DOMAIN shards
                    THEN resp' = R(500, "Internal Server Error", <<>>, <<q>>)
                    ELSE resp' = R(200, "", dup_sql(shards[file_reg], comune, limit), <<q>>)
        /\ UNCHANGED <<idx, shards, index_cache, first_res>>

\* GET /check_duplicati_numeric
check_duplicati_numeric(codice_comune, limit) ==
    LET comune == ScanKey(codice_comune)
        res == q1(comune)
        R(status, detail, body, shq) ==
            Response("check_duplicati_numeric", codice_comune, <<>>, <<>>, limit,
                     status, detail, body, << <<comune>> >>, shq)
    IN  /\ IF res = <<>>
           THEN resp' = R(404, "Comune non trovato", <<>>, <<>>)
           ELSE LET file_reg == BASE_URL \o res[1]
                    q == Query(file_reg, <<comune>>, limit)
                IN  IF file_reg \notin DOMAIN shards
                    THEN resp' = R(500, "Internal Server Error", <<>>, <<q>>)
                    ELSE resp' = R(200, "", dupnum_sql(shards[file_reg], comune, limit),
                                   <<q>>)
        /\ UNCHANGED <<idx, shards, index_cache, first_res>>

\* ------------------------------------------------- requests, one at a time
Threads == 1..NThreads
Idle == [comune |-> <<>>, foglio |-> <<>>, particella |-> <<>>,
         res |-> <<>>, file_reg |-> <<>>, status |-> 0]

Started ==
    /\ index_cache = <<>>
    /\ resp = NoResponse
    /\ first_res = [c \in Codes |-> <<>>]
    /\ pc = [t \in Threads |-> "idle"]
    /\ loc = [t \in Threads |-> Idle]

Init ==
    /\ idx \in Catalogs
    /\ \E rows \in SmallContents :
          shards = (BASE_URL \o Lazio :> rows) @@ (BASE_URL \o Piemonte :> PiemonteRows)
    /\ Started

Lookup ==
    /\ \E c \in ComuneInputs, f \in FoglioInputs, p \in ParticellaInputs : lookup(c, f, p)
    /\ UNCHANGED <<pc, loc>>

SchemaRegione ==
    /\ \E c \in ComuneInputs : schema_regione(c)
    /\ UNCHANGED <<pc, loc>>

CheckDuplicati ==
    /\ \E c \in ComuneInputs, n \in LimitInputs : check_duplicati(c, n)
    /\ UNCHANGED <<pc, loc>>

CheckDuplicatiNumeric ==
    /\ \E c \in ComuneInputs, n \in LimitInputs : check_duplicati_numeric(c, n)
    /\ UNCHANGED <<pc, loc>>

Next == Lookup \/ SchemaRegione \/ CheckDuplicati \/ CheckDuplicatiNumeric

Spec == Init /\ [][Next]_vars

\* ------------------------- the first request after start, on any file content
InitOnce ==
    /\ idx \in {CatalogPlain, CatalogDup}
    /\ \E rows \in ShardContents :
          shards = (BASE_URL \o Lazio :> rows) @@ (BASE_URL \o Piemonte :> PiemonteRows)
    /\ Started

FirstLookup == resp = NoResponse /\ Lookup
FirstSchemaRegione == resp = NoResponse /\ SchemaRegione
FirstCheckDuplicati == resp = NoResponse /\ CheckDuplicati
FirstCheckDuplicatiNumeric == resp = NoResponse /\ CheckDuplicatiNumeric

NextOnce ==
    FirstLookup \/ FirstSchemaRegione \/ FirstCheckDuplicati \/ FirstCheckDuplicatiNumeric

SpecOnce == InitOnce /\ [][NextOnce]_vars

\* ------------------------------------- lookup requests on concurrent threads
\* the thread pool runs lookup one dict operation or one query at a time
ConcComune == {H5, <<" ", "h", "5", " ">>, L7, <<"Z", "9">>}
ConcFoglio == <<"1", "0">>
ConcParticella == <<"4">>

InitConc ==
    /\ idx \in Catalogs
    /\ shards = (BASE_URL \o Lazio :> RowsFrom(<<2, 1, 0, 1, 1>>, 1))
                @@ (BASE_URL \o Piemonte :> PiemonteRows)
    /\ Started

Finish(t, status) ==
    /\ loc' = [loc EXCEPT ![t].status = status]
    /\ pc' = [pc EXCEPT ![t] = "done"]

\* lines 47-49
t_call(t) ==
    /\ pc[t] = "idle"
    /\ \E c \in ConcComune :
          loc' = [loc EXCEPT ![t] = [Idle EXCEPT !.comune = LookupKey(c),
                                                 !.foglio = strip(ConcFoglio),
                                                 !.particella = strip(ConcParticella)]]
    /\ pc' = [pc EXCEPT ![t] = "l52"]
    /\ UNCHANGED index_cache

\* line 52
t_l52(t) ==
    /\ pc[t] = "l52"
    /\ pc' = [pc EXCEPT ![t] = IF CacheMiss(index_cache, loc[t].comune) THEN "l54" ELSE "l58"]
    /\ UNCHANGED <<index_cache, loc>>

\* lines 53-56
t_l54(t) ==
    /\ pc[t] = "l54"
    /\ LET res == q1(loc[t].comune)
       IN  IF res = <<>>
           THEN Finish(t, 404)
           ELSE /\ loc' = [loc EXCEPT ![t].res = res]
                /\ pc' = [pc EXCEPT ![t] = "l57"]
    /\ UNCHANGED index_cache

\* line 57
t_l57(t) ==
    /\ pc[t] = "l57"
    /\ index_cache' = CacheStore(index_cache, loc[t].comune, loc[t].res[1])
    /\ pc' = [pc EXCEPT ![t] = "l58"]
    /\ UNCHANGED loc

\* line 58
t_l58(t) ==
    /\ pc[t] = "l58"
    /\ IF loc[t].comune \notin DOMAIN index_cache
       THEN Finish(t, 500)
       ELSE /\ loc' = [loc EXCEPT ![t].file_reg = index_cache[loc[t].comune]]
            /\ pc' = [pc EXCEPT ![t] = "l73"]
    /\ UNCHANGED index_cache

\* lines 60-84
t_l73(t) ==
    /\ pc[t] = "l73"
    /\ LET q == q2(loc[t].file_reg, loc[t].comune, loc[t].foglio, loc[t].particella)
       IN  IF q.from \notin DOMAIN shards THEN Finish(t, 500)
           ELSE IF q2_rows(q) = {} THEN Finish(t, 404)
           ELSE Finish(t, 200)
    /\ UNCHANGED index_cache

\* the response is sent; the thread takes the next request
t_return(t) ==
    /\ pc[t] = "done"
    /\ pc' = [pc EXCEPT ![t] = "idle"]
    /\ loc' = [loc EXCEPT ![t] = Idle]
    /\ UNCHANGED index_cache

\* what the per-thread steps leave alone
rest == <<idx, shards, resp, first_res>>

Call == (\E t \in Threads : t_call(t)) /\ UNCHANGED rest
Line52 == (\E t \in Threads : t_l52(t)) /\ UNCHANGED rest
Line54 == (\E t \in Threads : t_l54(t)) /\ UNCHANGED rest
Line57 == (\E t \in Threads : t_l57(t)) /\ UNCHANGED rest
Line58 == (\E t \in Threads : t_l58(t)) /\ UNCHANGED rest
Line73 == (\E t \in Threads : t_l73(t)) /\ UNCHANGED rest
Return == (\E t \in Threads : t_return(t)) /\ UNCHANGED rest

NextConc == Call \/ Line52 \/ Line54 \/ Line57 \/ Line58 \/ Line73 \/ Return

SpecConc == InitConc /\ [][NextConc]_vars

\* =================================================================== claims
\* what the claims speak of, stated without the handlers' own operators

LowerLetters == {LowerCase[i] : i \in 1..Len(LowerCase)}

\* k is trimmed and upper case
Normalized(k) ==
    /\ \A i \in 1..Len(k) : k[i] \notin LowerLetters
    /\ k # <<>> => (k[1] \notin Whitespace /\ k[Len(k)] \notin Whitespace)

\* s is raw without its leading and trailing whitespace
IsTrimOf(s, raw) ==
    /\ s # <<>> => (s[1] \notin Whitespace /\ s[Len(s)] \notin Whitespace)
    /\ \E a \in 0..Len(raw) :
          /\ a + Len(s) <= Len(raw)
          /\ \A i \in 1..Len(raw) :
                IF i > a /\ i <= a + Len(s) THEN raw[i] = s[i - a]
                ELSE raw[i] \in Whitespace

\* k is raw with every letter in upper case
IsUpperOf(k, raw) ==
    /\ Len(k) = Len(raw)
    /\ \A i \in 1..Len(k) : k[i] = UpperChar(raw[i])

\* k is the normalized form of raw: trimmed, then upper case
IsNormalOf(k, raw) ==
    /\ k # <<>> => (k[1] \notin Whitespace /\ k[Len(k)] \notin Whitespace)
    /\ \E a \in 0..Len(raw) :
          /\ a + Len(k) <= Len(raw)
          /\ \A i \in 1..Len(raw) :
                IF i > a /\ i <= a + Len(k) THEN UpperChar(raw[i]) = k[i - a]
                ELSE raw[i] \in Whitespace

\* two codes that differ only in letter case and surrounding whitespace
SameCode(a, b) == \E k \in Codes : IsNormalOf(k, a) /\ IsNormalOf(k, b)

InCatalog(c) == \E i \in 1..Len(idx) : idx[i].comune = c

\* f is the file of the first index row whose code is c
CatalogFile(c, f) ==
    \E i \in 1..Len(idx) :
        /\ idx[i].comune = c /\ idx[i].file = f
        /\ \A j \in 1..(i - 1) : idx[j].comune # c

\* the file reference a served request queried, <<>> when it queried none
QueriedFile(r) == IF r.shq = <<>> THEN <<>> ELSE <<r.shq[1].from>>

\* ---------------------------------------------------------------------- C1
\* one lookup call, against the cache as it was before the call
C1_Step ==
    resp'.op = "lookup" =>
        \A k \in Codes : IsNormalOf(k, resp'.comune) =>
            /\ k \in DOMAIN index_cache =>
                  /\ resp'.catq = <<>>
                  /\ QueriedFile(resp') = <<BASE_URL \o index_cache[k]>>
                  /\ index_cache' = index_cache
            /\ (k \notin DOMAIN index_cache /\ InCatalog(k)) =>
                  /\ k \in DOMAIN index_cache'
                  /\ QueriedFile(resp') = <<BASE_URL \o index_cache'[k]>>
\* C1: a lookup whose normalized code is already a key of the cache issues no
\* index query and queries the file the cache holds for it; a lookup that
\* misses and finds the code queries the file it has just stored.  So two
\* successive lookups of a code the index resolves use the same file and the
\* second never runs q1.
C1_SecondLookupSkipsCatalog == [][C1_Step]_vars

\* a lookup served from the cache
C1_Witness ==
    /\ resp.op = "lookup" /\ resp.catq = <<>> /\ resp.status = 200
    /\ resp.comune = <<" ", "h", "5", " ">>

\* ---------------------------------------------------------------------- C3
\* one lookup call of a code no index row holds
C3_Step ==
    (resp'.op = "lookup"
        /\ \A k \in Codes : IsNormalOf(k, resp'.comune) => ~InCatalog(k)) =>
        /\ resp'.status = 404
        /\ resp'.detail = "Comune non trovato nell'indice"
        /\ resp'.body = <<>>
        /\ resp'.shq = <<>>
        /\ index_cache' = index_cache
\* C3: a lookup whose normalized code is in no index row answers 404 "Comune
\* non trovato nell'indice", issues no query against a regional file and
\* leaves index_cache as it was.
C3_AbsentCodeIsNotFoundComune == [][C3_Step]_vars

\* a lookup of a code the index lacks, after the cache has an entry
C3_Witness ==
    /\ resp.op = "lookup" /\ resp.status = 404 /\ resp.shq = <<>>
    /\ resp.comune = <<"Z", "9">>
    /\ index_cache # <<>>

\* ---------------------------------------------------------------------- C5
MetaChars == {"'", ";", "-"}
HasMeta(s) == \E i \in 1..Len(s) : s[i] \in MetaChars

\* the FROM of q is BASE_URL followed by the file of an index row
TrustedRef(from) == \E i \in 1..Len(idx) : from = BASE_URL \o idx[i].file

\* C5: every query a handler issues against a regional file reads
\* BASE_URL + a `file` of an index row; the caller's comune, foglio,
\* particella and limit appear only among its bound parameters; a code with
\* quote or SQL metacharacters that no index row holds only yields 404.
C5_TrustedFileBoundValues ==
    /\ \A n \in 1..Len(resp.shq) :
          LET q == resp.shq[n]
          IN  /\ TrustedRef(q.from)
              /\ resp.op = "lookup" =>
                    /\ Len(q.binds) = 3
                    /\ IsNormalOf(q.binds[1], resp.comune)
                    /\ IsTrimOf(q.binds[2], resp.foglio)
                    /\ IsTrimOf(q.binds[3], resp.particella)
              /\ resp.op \in {"check_duplicati", "check_duplicati_numeric"} =>
                    /\ q.binds = <<q.binds[1]>>
                    /\ IsUpperOf(q.binds[1], resp.comune)
                    /\ q.limit = resp.limit
              /\ resp.op = "schema_regione" => q.binds = <<>>
    /\ (resp.op # "" /\ HasMeta(resp.comune)
            /\ \A i \in 1..Len(idx) : ~HasMeta(idx[i].comune)) =>
          /\ resp.status = 404
          /\ resp.shq = <<>>
          /\ \A k \in DOMAIN index_cache : ~HasMeta(k)

\* a lookup that queried a regional file for a code given in lower case, padded
C5_Witness ==
    /\ resp.op = "lookup" /\ resp.shq # <<>>
    /\ resp.comune = <<" ", "h", "5", " ">>
    /\ resp.particella = <<"4", "b", " ">>

\* ---------------------------------------------------------------------- C6
C6_Inv ==
    \A k \in DOMAIN index_cache :
        /\ Normalized(k)
        /\ CatalogFile(k, index_cache[k])
        /\ first_res[k] = <<index_cache[k]>>
C6_Grow ==
    \A k \in DOMAIN index_cache :
        k \in DOMAIN index_cache' /\ index_cache'[k] = index_cache[k]
\* C6: index_cache only grows (no key leaves, no value changes); every key is
\* a trimmed upper-case code of an index row; its value is the file q1
\* returned the first time lookup found the code.
C6_CacheGrowsAndHoldsFirstResolution == []C6_Inv /\ [][C6_Grow]_vars

\* both codes cached, the last lookup served from the cache
C6_Witness ==
    /\ Cardinality(DOMAIN index_cache) = 2
    /\ resp.op = "lookup" /\ resp.catq = <<>>

\* ---------------------------------------------------------------------- C7
\* C7: with the steps of concurrent lookups interleaved, every key of
\* index_cache holds the index's file for it, a thread about to read the
\* cache finds its key, every thread past the read holds the index's file
\* for its code, and no request for a code the index holds fails.
C7_ConcurrentLookupsAgree ==
    /\ \A k \in DOMAIN index_cache : CatalogFile(k, index_cache[k])
    /\ \A t \in Threads :
          /\ pc[t] = "l58" => loc[t].comune \in DOMAIN index_cache
          /\ pc[t] = "l73" => CatalogFile(loc[t].comune, loc[t].file_reg)
          /\ (pc[t] = "done" /\ InCatalog(loc[t].comune)) =>
                /\ loc[t].status # 500
                /\ CatalogFile(loc[t].comune, loc[t].file_reg)
                /\ index_cache[loc[t].comune] = loc[t].file_reg

\* two requests for one code both missed, both ran q1, both stored, both done
C7_Witness ==
    \E t, u \in Threads :
        /\ t # u
        /\ pc[t] = "done" /\ pc[u] = "done"
        /\ loc[t].comune = loc[u].comune
        /\ loc[t].res # <<>> /\ loc[u].res # <<>>
        /\ loc[t].status = 200 /\ loc[u].status = 200

\* ---------------------------------------------------------------------- C4
\* the rows of a file whose three fields are the given values
RowsWith(rows, c, f, p) ==
    {i \in 1..Len(rows) :
        rows[i].comune = c /\ rows[i].foglio = f /\ rows[i].particella = p}

\* the contiguous pieces of a string
Pieces(raw) == {SubSeq(raw, a, b) : a \in 1..(Len(raw) + 1), b \in 0..Len(raw)}

\* C4: for a code the index holds, lookup answers with exactly one record,
\* taken from a row of the resolved file whose comune, foglio and particella
\* are the normalized inputs, when the file has such a row, and with 404
\* "Particella non trovata" when it has none.
C4_LookupReturnsAMatchingRow ==
    resp.op = "lookup" =>
        \A k \in Codes, file \in Files :
            (IsNormalOf(k, resp.comune) /\ CatalogFile(k, file)) =>
                \A f \in Pieces(resp.foglio), p \in Pieces(resp.particella) :
                    (IsTrimOf(f, resp.foglio) /\ IsTrimOf(p, resp.particella)) =>
                        LET rows == shards[BASE_URL \o file]
                            hits == RowsWith(rows, k, f, p)
                        IN  IF hits = {}
                            THEN /\ resp.status = 404
                                 /\ resp.detail = "Particella non trovata"
                                 /\ resp.body = <<>>
                            ELSE /\ resp.status = 200
                                 /\ Len(resp.body) = 1
                                 /\ resp.body[1].comune = k
                                 /\ resp.body[1].foglio = f
                                 /\ resp.body[1].particella = p
                                 /\ \E i \in hits :
                                       resp.body[1].localid = rows[i].INSPIREID_LOCALID

\* a padded request answered with one of several identical parcels
C4_Witness ==
    /\ resp.op = "lookup" /\ resp.status = 200
    /\ resp.comune = <<" ", "h", "5", " ">>
    /\ resp.foglio = <<" ", "2">>
    /\ Cardinality(RowsWith(shards[resp.shq[1].from], H5, <<"2">>, <<"4">>)) = MaxDup
    /\ resp.body[1].localid = 32

\* ---------------------------------------------------------------- C8, C9
\* how many rows of the file belong to group (f, p) of comune c
GroupCount(rows, c, f, p) == Cardinality(RowsWith(rows, c, f, p))

\* the (foglio, particella) pairs of comune c among the rows numbered in sel
PairsOf(rows, sel) == {<<rows[i].foglio, rows[i].particella>> : i \in sel}

KeyBefore(f1, p1, f2, p2) == StrLess(f1, f2) \/ (f1 = f2 /\ StrLess(p1, p2))

\* group g comes strictly before group h: count descending, then foglio, then particella
DupBefore(g, h) ==
    \/ g.count > h.count
    \/ g.count = h.count /\ KeyBefore(g.foglio, g.particella, h.foglio, h.particella)

\* C8: check_duplicati answers 200 exactly for the codes whose upper-case form
\* the index holds, and then lists (foglio, particella, count) groups of the
\* resolved file's rows of that comune: each with its true count, which is
\* above 1; strictly ordered by count descending, foglio, particella; min(limit,
\* number of duplicated groups) of them, none of the omitted groups ordered
\* before a listed one.
C8_DuplicatesExactSortedLimited ==
    resp.op = "check_duplicati" =>
        \A k \in Codes :
            IsUpperOf(k, resp.comune) =>
                /\ resp.status = 200 <=> InCatalog(k)
                /\ \A file \in Files :
                      CatalogFile(k, file) =>
                        LET rows == shards[BASE_URL \o file]
                            sel == {i \in 1..Len(rows) : rows[i].comune = k}
                            dups == {d \in PairsOf(rows, sel) :
                                        GroupCount(rows, k, d[1], d[2]) > 1}
                            listed == {<<resp.body[n].foglio, resp.body[n].particella>> :
                                          n \in 1..Len(resp.body)}
                        IN  /\ \A n \in 1..Len(resp.body) :
                                  /\ resp.body[n].count > 1
                                  /\ resp.body[n].count =
                                        GroupCount(rows, k, resp.body[n].foglio,
                                                   resp.body[n].particella)
                            /\ \A n \in 1..(Len(resp.body) - 1) :
                                  DupBefore(resp.body[n], resp.body[n + 1])
                            /\ Len(resp.body) = Min({resp.limit, Cardinality(dups)})
                            /\ \A d \in dups \ listed, n \in 1..Len(resp.body) :
                                  DupBefore(resp.body[n],
                                            [foglio |-> d[1], particella |-> d[2],
                                             count |-> GroupCount(rows, k, d[1], d[2])])

\* two groups listed, the larger first although its foglio sorts later, one cut off
C8_Witness ==
    /\ resp.op = "check_duplicati" /\ resp.status = 200
    /\ resp.limit = 2 /\ Len(resp.body) = 2
    /\ resp.body[1].count > resp.body[2].count
    /\ StrLess(resp.body[2].foglio, resp.body[1].foglio)
    /\ GroupCount(shards[resp.shq[1].from], H5, <<"1", "0">>, <<"4", "b">>) = 2

AllDigits(s) == Len(s) >= 1 /\ \A i \in 1..Len(s) : s[i] \in Digits

\* C9: check_duplicati_numeric lists only groups whose particella is all
\* digits, each with its true count above 1, strictly ordered by foglio then
\* particella whatever the counts, min(limit, number of duplicated numeric
\* groups) of them, none of the omitted groups ordered before a listed one.
C9_NumericDuplicatesOnlyDigits ==
    resp.op = "check_duplicati_numeric" =>
        \A k \in Codes :
            IsUpperOf(k, resp.comune) =>
                /\ resp.status = 200 <=> InCatalog(k)
                /\ \A file \in Files :
                      CatalogFile(k, file) =>
                        LET rows == shards[BASE_URL \o file]
                            sel == {i \in 1..Len(rows) :
                                       rows[i].comune = k /\ AllDigits(rows[i].particella)}
                            dups == {d \in PairsOf(rows, sel) :
                                        GroupCount(rows, k, d[1], d[2]) > 1}
                            listed == {<<resp.body[n].foglio, resp.body[n].particella>> :
                                          n \in 1..Len(resp.body)}
                        IN  /\ \A n \in 1..Len(resp.body) :
                                  /\ AllDigits(resp.body[n].particella)
                                  /\ resp.body[n].count > 1
                                  /\ resp.body[n].count =
                                        GroupCount(rows, k, resp.body[n].foglio,
                                                   resp.body[n].particella)
                            /\ \A n \in 1..(Len(resp.body) - 1) :
                                  KeyBefore(resp.body[n].foglio, resp.body[n].particella,
                                            resp.body[n + 1].foglio,
                                            resp.body[n + 1].particella)
                            /\ Len(resp.body) = Min({resp.limit, Cardinality(dups)})
                            /\ \A d \in dups \ listed, n \in 1..Len(resp.body) :
                                  KeyBefore(resp.body[n].foglio, resp.body[n].particella,
                                            d[1], d[2])

\* a duplicated non-numeric parcel left out, the smaller group listed first
C9_Witness ==
    /\ resp.op = "check_duplicati_numeric" /\ resp.status = 200
    /\ Len(resp.body) = 2
    /\ resp.body[1].count < resp.body[2].count
    /\ GroupCount(shards[resp.shq[1].from], H5, <<"1", "0">>, <<"4", "b">>) = MaxDup

\* ---------------------------------------------------------------------- C2
\* the file reference handler `op` resolves code c to in this state, <<>> for 404
ResolvedBy(op, c) ==
    IF op = "lookup"
    THEN IF ~CacheMiss(index_cache, LookupKey(c))
         THEN <<BASE_URL \o index_cache[LookupKey(c)]>>
         ELSE IF q1(LookupKey(c)) = <<>> THEN <<>> ELSE <<BASE_URL \o q1(LookupKey(c))[1]>>
    ELSE IF q1(ScanKey(c)) = <<>> THEN <<>> ELSE <<BASE_URL \o q1(ScanKey(c))[1]>>

\* C2: whatever handler served the last request, it resolved the request's
\* code to the file the same handler resolves every variant of that code to
\* (same letters up to case, same up to surrounding whitespace), or found
\* neither.
C2_ResolveIgnoresCaseAndWhitespace ==
    resp.op # "" =>
        \A v \in ComuneInputs :
            SameCode(resp.comune, v) => QueriedFile(resp) = ResolvedBy(resp.op, v)

\* ---------------------------------------------------------------------- C10
Handlers == {"lookup", "schema_regione", "check_duplicati", "check_duplicati_numeric"}

\* one handler call, against the cache as it was before the call
C10_Step ==
    resp'.op \in Handlers =>
        \A k \in Codes : IsNormalOf(k, resp'.comune) =>
            /\ k \in DOMAIN index_cache => resp'.catq = <<>>
            /\ (k \notin DOMAIN index_cache /\ resp'.shq # <<>>) =>
                  k \in DOMAIN index_cache'
\* C10: every handler that needs a regional file runs no index query when the
\* normalized code is a key of index_cache, and stores the code in
\* index_cache before it queries the file otherwise.
C10_EveryHandlerUsesTheCache == [][C10_Step]_vars

====
